---- MODULE Spec2Model ----
(***************************************************************************)
(* Scene loading of gs3dgs/scene/dataset_readers.py: the three loaders of  *)
(* sceneLoadTypeCallbacks (readColmapSceneInfo, readNerfSyntheticInfo,     *)
(* readToyDeskSceneInfo), the camera readers they call, the train/test     *)
(* split, getNerfppNorm and the points3D ply cache.                        *)
(*                                                                         *)
(* A scene directory (world) is fixed at Init; only its ply cache file     *)
(* changes.  Each process runs loads of that scene one after another; a    *)
(* load is cut into steps at its file-system operations.                   *)
(*                                                                         *)
(* Geometry is one-dimensional: a camera has a translation T (an integer)  *)
(* and no rotation, so its centre is -T.  Rationals are kept reduced.      *)
(***************************************************************************)
EXTENDS Integers, Sequences, FiniteSets, TLC

\* Longest extrinsics mapping / manifest frame list of a scene.
MaxCams == 2

\* Image stems; integers, so that sorted() has an order to sort by.
Names == {1, 2}

\* ------------------------------------------------------------------ values

Abs(x) == IF x < 0 THEN -x ELSE x

RECURSIVE GCD(_, _)
GCD(a, b) == IF b = 0 THEN a ELSE GCD(b, a % b)

\* The rational n/d (d > 0), reduced.
Rat(n, d) ==
    LET g == GCD(Abs(n), d)
    IN  [num |-> n \div g, den |-> d \div g]

RECURSIVE SumSeq(_)
SumSeq(s) == IF s = <<>> THEN 0 ELSE Head(s) + SumSeq(Tail(s))

RECURSIVE MaxSeq(_)
MaxSeq(s) ==
    IF Len(s) = 1 THEN s[1]
    ELSE LET m == MaxSeq(Tail(s)) IN IF Head(s) > m THEN Head(s) ELSE m

\* Python values that take part in argument binding.
PyStr(s) == [ty |-> "str", val |-> s]
PyBool(b) == [ty |-> "bool", val |-> IF b THEN "True" ELSE "False"]
PyNone == [ty |-> "NoneType", val |-> "None"]
Unbound == [ty |-> "unbound", val |-> ""]

\* ---------------------------------------------------------------- geometry

\* focal2fov(focal, pixels) = 2*atan(pixels / (2*focal)), kept symbolic.
focal2fov(focal, pixels) == [focal |-> focal, pixels |-> pixels]

\* fov2focal(fov, pixels) = pixels / (2*tan(fov / 2)), kept symbolic.
fov2focal(fov, pixels) == [fov |-> fov, pixels |-> pixels]

\* The centre of a camera: C2W[:3, 3:4] of the inverse of getWorld2View2(R, T).
CamCenter(cam) == -cam.T

\* getNerfppNorm: translate = -mean(centres), radius = 1.1 * max distance to
\* the mean; np.hstack of no arrays raises ValueError.
getNerfppNorm(cam_info) ==
    IF Len(cam_info) = 0
    THEN [ok |-> FALSE, err |-> "ValueError",
          val |-> [translate |-> Rat(0, 1), radius |-> Rat(0, 1)]]
    ELSE LET n == Len(cam_info)
             cam_centers == [i \in 1..n |-> CamCenter(cam_info[i])]
             total == SumSeq(cam_centers)
             \* dist * n, for every camera
             dist == [i \in 1..n |-> Abs(n * cam_centers[i] - total)]
             diagonal == MaxSeq(dist)
         IN  [ok |-> TRUE, err |-> "",
              val |-> [translate |-> Rat(-total, n),
                       radius |-> Rat(11 * diagonal, 10 * n)]]

\* ------------------------------------------------------- colmap cameras

\* The intrinsics mapping the parser hands over: camera_id -> intrinsics.
cam_intrinsics ==
    [c \in {1, 2, 3} |->
        CASE c = 1 -> [id |-> 1, model |-> "SIMPLE_PINHOLE", width |-> 4,
                       height |-> 2, params |-> <<3>>]
          [] c = 2 -> [id |-> 2, model |-> "PINHOLE", width |-> 4,
                       height |-> 2, params |-> <<3, 5>>]
          [] c = 3 -> [id |-> 3, model |-> "OPENCV", width |-> 6,
                       height |-> 4, params |-> <<7, 7, 1, 1>>]]

Supported(model) == model \in {"SIMPLE_PINHOLE", "PINHOLE"}

\* FovY / FovX before the loop has assigned them.
FovUnbound == [focal |-> 0, pixels |-> 0]

CameraInfo(uid, T, FovY, FovX, image_path, image_name, width, height) ==
    [uid |-> uid, T |-> T, FovY |-> FovY, FovX |-> FovX,
     image_path |-> image_path, image_name |-> image_name,
     width |-> width, height |-> height]

\* os.path.basename(extr.name), then .split(".")[0]
ImageName(name) == name.stem

\* The assert of the else branch: raises unless Python runs with -O, which
\* compiles assert statements out.
AssertRaises(optimize) == ~optimize

\* One pass of the loop body of readColmapCameras for entry idx, then the
\* rest of the loop.  FovY and FovX are function-level names: an iteration
\* that assigns neither sees the values of the one before.
RECURSIVE ColmapCamerasFrom(_, _, _, _, _, _, _)
ColmapCamerasFrom(extrs, images, optimize, idx, cam_infos, FovY0, FovX0) ==
    IF idx > Len(extrs)
    THEN [ok |-> TRUE, err |-> "", cam_infos |-> cam_infos]
    ELSE
    LET extr == extrs[idx]
        intr == cam_intrinsics[extr.camera_id]
        height == intr.height
        width == intr.width
        uid == intr.id
        T == extr.tvec
        FovY == CASE intr.model = "SIMPLE_PINHOLE" ->
                        focal2fov(intr.params[1], height)
                  [] intr.model = "PINHOLE" ->
                        focal2fov(intr.params[2], height)
                  [] OTHER -> FovY0
        FovX == CASE intr.model = "SIMPLE_PINHOLE" ->
                        focal2fov(intr.params[1], width)
                  [] intr.model = "PINHOLE" ->
                        focal2fov(intr.params[1], width)
                  [] OTHER -> FovX0
        image_name == ImageName(extr.name)
        found == images[extr.name.stem]
    IN  IF ~Supported(intr.model) /\ AssertRaises(optimize)
        THEN [ok |-> FALSE, err |-> "AssertionError", cam_infos |-> <<>>]
        ELSE IF found = "none"
        THEN [ok |-> FALSE, err |-> "FileNotFoundError", cam_infos |-> <<>>]
        ELSE IF FovY = FovUnbound
        THEN [ok |-> FALSE, err |-> "UnboundLocalError", cam_infos |-> <<>>]
        ELSE ColmapCamerasFrom(extrs, images, optimize, idx + 1,
                Append(cam_infos,
                       CameraInfo(uid, T, FovY, FovX,
                                  [stem |-> extr.name.stem, ext |-> found],
                                  image_name, width, height)),
                FovY, FovX)

readColmapCameras(cam_extrinsics, images, optimize) ==
    ColmapCamerasFrom(cam_extrinsics, images, optimize, 1, <<>>,
                      FovUnbound, FovUnbound)

\* Mutant of SortedByName: the cameras stay in iteration order.
Unsorted(cams) == cams

\* sorted(xs, key = image_name): a stable insertion sort.
RECURSIVE InsertByName(_, _)
InsertByName(c, sortedCams) ==
    IF sortedCams = <<>> THEN <<c>>
    ELSE IF c.image_name < Head(sortedCams).image_name
         THEN <<c>> \o sortedCams
         ELSE <<Head(sortedCams)>> \o InsertByName(c, Tail(sortedCams))

RECURSIVE SortFrom(_, _, _)
SortFrom(cams, i, acc) ==
    IF i > Len(cams) THEN acc
    ELSE SortFrom(cams, i + 1, InsertByName(cams[i], acc))

SortedByName(cams) == SortFrom(cams, 1, <<>>)

\* ---------------------------------------------------- manifest cameras

Params ==
    <<"path", "images_dir", "transformsfile", "white_background",
      "depth_cam_folder", "depth_est_folder", "isOpenGL", "extension">>

Defaults ==
    [depth_cam_folder |-> PyNone, depth_est_folder |-> PyNone,
     isOpenGL |-> PyBool(FALSE), extension |-> PyStr("jpg")]

ParamSet == {Params[i] : i \in 1..Len(Params)}

\* Python's binding of a call's positional and keyword arguments to the
\* parameters of readCamerasFromTransforms.
Bind(pos, kw) ==
    LET val(i) == IF i <= Len(pos) THEN pos[i]
                  ELSE IF Params[i] \in DOMAIN kw THEN kw[Params[i]]
                  ELSE IF Params[i] \in DOMAIN Defaults THEN Defaults[Params[i]]
                  ELSE Unbound
    IN  IF \/ Len(pos) > Len(Params)
           \/ ~(DOMAIN kw \subseteq ParamSet)
           \/ \E i \in 1..Len(Params) : i <= Len(pos) /\ Params[i] \in DOMAIN kw
           \/ \E i \in 1..Len(Params) : val(i) = Unbound
        THEN [ok |-> FALSE, err |-> "TypeError",
              args |-> [n \in ParamSet |-> Unbound]]
        ELSE [ok |-> TRUE, err |-> "",
              args |-> [n \in ParamSet |->
                          val(CHOOSE i \in 1..Len(Params) : Params[i] = n)]]

\* The directory that holds the scene's images.
ImagesDir == "path/images"

\* The frames loop of readCamerasFromTransforms, from frame idx on.
RECURSIVE TransformsFrom(_, _, _, _, _, _)
TransformsFrom(frames, images, images_dir, extension, idx, cam_infos) ==
    IF idx > Len(frames)
    THEN [ok |-> TRUE, err |-> "", cam_infos |-> cam_infos]
    ELSE
    LET frame == frames[idx]
        stem == frame.file_path.stem
        have == IF images_dir = ImagesDir THEN images[stem] ELSE "none"
        \* cam_name + extension if that file exists, else cam_name + ".png"
        ext == IF have = extension THEN have ELSE "png"
        \* NeRF transform_matrix is camera-to-world; T is taken from its inverse
        T == -frame.c2w
        fovx == frame.fovx
    IN  IF have # ext
        THEN [ok |-> FALSE, err |-> "FileNotFoundError", cam_infos |-> <<>>]
        ELSE TransformsFrom(frames, images, images_dir, extension, idx + 1,
                Append(cam_infos,
                       CameraInfo(idx - 1, T,
                                  focal2fov(fov2focal(fovx, frame.size[1]),
                                            frame.size[2]),
                                  fovx,
                                  [stem |-> stem, ext |-> ext],
                                  stem, frame.size[1], frame.size[2])))

\* readCamerasFromTransforms called with positional arguments pos and
\* keyword arguments kw, in a scene whose manifests and images are given.
readCamerasFromTransforms(pos, kw, manifests, images) ==
    LET b == Bind(pos, kw)
        a == b.args
    IN  IF ~b.ok THEN [ok |-> FALSE, err |-> b.err, cam_infos |-> <<>>]
        ELSE IF a["path"].ty # "str" \/ a["transformsfile"].ty # "str"
        THEN [ok |-> FALSE, err |-> "TypeError", cam_infos |-> <<>>]
        ELSE IF a["transformsfile"].val \notin DOMAIN manifests
        THEN [ok |-> FALSE, err |-> "FileNotFoundError", cam_infos |-> <<>>]
        ELSE IF a["images_dir"].ty # "str" \/ a["extension"].ty # "str"
        THEN [ok |-> FALSE, err |-> "TypeError", cam_infos |-> <<>>]
        ELSE TransformsFrom(manifests[a["transformsfile"].val],
                            images, a["images_dir"].val, a["extension"].val,
                            1, <<>>)

\* --------------------------------------------------------- train / test

InList(x, list) == \E i \in 1..Len(list) : list[i] = x

\* Mutant of CamerasIn: the membership test is lost, every camera is kept.
CamerasInUnfiltered(cam_infos, name_list) == cam_infos

\* [c for c in cam_infos if c.image_name in name_list]
CamerasIn(cam_infos, name_list) ==
    LET Listed(c) == InList(c.image_name, name_list)
    IN  SelectSeq(cam_infos, Listed)

\* Mutant of SplitCameras: test_cam_infos is filtered by train_list too.
SplitCamerasTestFromTrain(eval, split_yml_name, split, cam_infos) ==
    IF ~eval
    THEN [ok |-> TRUE, err |-> "", train |-> cam_infos, test |-> <<>>]
    ELSE IF split_yml_name.ty # "str"
    THEN [ok |-> FALSE, err |-> "TypeError", train |-> <<>>, test |-> <<>>]
    ELSE IF ~split.exists
    THEN [ok |-> FALSE, err |-> "FileNotFoundError",
          train |-> <<>>, test |-> <<>>]
    ELSE [ok |-> TRUE, err |-> "",
          train |-> SelectSeq(cam_infos,
                        LAMBDA c : c.image_name \in
                            {split.train[i] : i \in 1..Len(split.train)}),
          test |-> SelectSeq(cam_infos,
                        LAMBDA c : c.image_name \in
                            {split.train[i] : i \in 1..Len(split.train)})]

\* Mutant of SplitCameras: a missing split file is not an error, every
\* camera becomes a train camera.
SplitCamerasNoFileAllTrain(eval, split_yml_name, split, cam_infos) ==
    IF ~eval \/ split_yml_name.ty # "str" \/ ~split.exists
    THEN [ok |-> TRUE, err |-> "", train |-> cam_infos, test |-> <<>>]
    ELSE [ok |-> TRUE, err |-> "",
          train |-> SelectSeq(cam_infos,
                        LAMBDA c : c.image_name \in
                            {split.train[i] : i \in 1..Len(split.train)}),
          test |-> SelectSeq(cam_infos,
                        LAMBDA c : c.image_name \in
                            {split.test[i] : i \in 1..Len(split.test)})]

\* The "if eval: ... else: ..." block of readColmapSceneInfo and of
\* readToyDeskSceneInfo (the same text in both).
SplitCameras(eval, split_yml_name, split, cam_infos) ==
    IF ~eval
    THEN [ok |-> TRUE, err |-> "", train |-> cam_infos, test |-> <<>>]
    ELSE IF split_yml_name.ty # "str"
    THEN [ok |-> FALSE, err |-> "TypeError", train |-> <<>>, test |-> <<>>]
    ELSE IF ~split.exists
    THEN [ok |-> FALSE, err |-> "FileNotFoundError",
          train |-> <<>>, test |-> <<>>]
    ELSE [ok |-> TRUE, err |-> "",
          train |-> CamerasIn(cam_infos, split.train),
          test |-> CamerasIn(cam_infos, split.test)]

\* ------------------------------------------------------------ ply cache

\* Coordinates and colours are floats, kept in quarter units.
\* astype('f4'): the coordinate at the precision the file keeps.
ToF4(x) == (x \div 2) * 2

\* astype('u1'): the fraction is cut, the value wraps at 256.
ToU1(c) == (c \div 4) % 256

\* storePly: one record per point, normals zero.
storePly(xyz_rgb) ==
    [i \in 1..Len(xyz_rgb) |->
        [x |-> ToF4(xyz_rgb[i].xyz), nx |-> 0, red |-> ToU1(xyz_rgb[i].rgb)]]

\* fetchPly: positions as stored, colours / 255.0, no normals.
fetchPly(data) ==
    [points |-> [i \in 1..Len(data) |-> data[i].x],
     colors |-> [i \in 1..Len(data) |-> Rat(data[i].red, 255)],
     normals |-> "None"]

NoPcd == [points |-> <<>>, colors |-> <<>>, normals |-> "None"]

\* Mutant of CacheMissing: the existence check is lost, the cache is always
\* taken to be missing.
CacheMissingAlways(file) == TRUE

\* not os.path.exists(ply_path)
CacheMissing(file) == ~file.exists

\* What points3D.bin and points3D.txt of the scene hold.
PointsBin == <<[xyz |-> 5, rgb |-> 1020]>>
PointsTxt == <<[xyz |-> 9, rgb |-> 400]>>

\* np.random clouds with colours SH2RGB(shs) * 255.
RandomClouds ==
    {<<[xyz |-> 3, rgb |-> 510]>>, <<[xyz |-> -4, rgb |-> 513]>>}

\* try: read_points3D_binary; except: read_points3D_text
ReadPoints3D(binOk, txtOk) ==
    IF binOk
    THEN [ok |-> TRUE, err |-> "", points |-> PointsBin,
          log |-> [ptsBin |-> "ok", ptsTxt |-> "unread"]]
    ELSE IF txtOk
    THEN [ok |-> TRUE, err |-> "", points |-> PointsTxt,
          log |-> [ptsBin |-> "fail", ptsTxt |-> "ok"]]
    ELSE [ok |-> FALSE, err |-> "DecodeError", points |-> <<>>,
          log |-> [ptsBin |-> "fail", ptsTxt |-> "fail"]]

Outcome(b) == IF b THEN "ok" ELSE "fail"

\* Mutant of ReadSparse: when only cameras.bin fails, the extrinsics read from
\* images.bin are kept and the intrinsics alone are read from text.
ReadSparseKeepsBinary(extBin, intBin, extTxt, intTxt) ==
    LET log == [extBin |-> Outcome(extBin),
                intBin |-> IF extBin THEN Outcome(intBin) ELSE "unread",
                extTxt |-> IF extBin THEN "unread" ELSE Outcome(extTxt),
                intTxt |-> IF extBin \/ extTxt THEN Outcome(intTxt)
                           ELSE "unread"]
    IN  IF extBin /\ intBin
        THEN [ok |-> TRUE, err |-> "", extrSrc |-> "bin", intrSrc |-> "bin",
              log |-> [log EXCEPT !.intTxt = "unread"]]
        ELSE IF extBin /\ intTxt
        THEN [ok |-> TRUE, err |-> "", extrSrc |-> "bin", intrSrc |-> "txt",
              log |-> log]
        ELSE IF ~extBin /\ extTxt /\ intTxt
        THEN [ok |-> TRUE, err |-> "", extrSrc |-> "txt", intrSrc |-> "txt",
              log |-> log]
        ELSE [ok |-> FALSE, err |-> "DecodeError",
              extrSrc |-> "none", intrSrc |-> "none", log |-> log]

\* try: read_extrinsics_binary; read_intrinsics_binary
\* except: read_extrinsics_text; read_intrinsics_text
ReadSparse(extBin, intBin, extTxt, intTxt) ==
    LET binLog == [extBin |-> Outcome(extBin),
                   intBin |-> IF extBin THEN Outcome(intBin) ELSE "unread"]
        txtLog == [extTxt |-> Outcome(extTxt),
                   intTxt |-> IF extTxt THEN Outcome(intTxt) ELSE "unread"]
    IN  IF extBin /\ intBin
        THEN [ok |-> TRUE, err |-> "", extrSrc |-> "bin", intrSrc |-> "bin",
              log |-> binLog @@ [extTxt |-> "unread", intTxt |-> "unread"]]
        ELSE IF extTxt /\ intTxt
        THEN [ok |-> TRUE, err |-> "", extrSrc |-> "txt", intrSrc |-> "txt",
              log |-> binLog @@ txtLog]
        ELSE [ok |-> FALSE, err |-> "DecodeError",
              extrSrc |-> "none", intrSrc |-> "none",
              log |-> binLog @@ txtLog]

\* ------------------------------------------------------------ the scene

UnsupportedIds == {c \in DOMAIN cam_intrinsics : ~Supported(cam_intrinsics[c].model)}

\* cam_extrinsics in iteration order; the entry at position i has tvec i.
ExtrinsicsOf(n) ==
    {[i \in 1..n |->
        [name |-> [dir |-> "sub", stem |-> f[i][1], ext |-> "jpg"],
         camera_id |-> f[i][2], tvec |-> i]] :
     f \in [1..n -> Names \X DOMAIN cam_intrinsics]}

ExtrinsicsSet == UNION {ExtrinsicsOf(n) : n \in 0..MaxCams}

\* The frames of a manifest (each with the manifest's camera_angle_x and the
\* size of its image, 800 x 800); frame i sits at position i.
FramesOf(n) ==
    {[i \in 1..n |->
        [file_path |-> [dir |-> "./images", stem |-> f[i]],
         c2w |-> i, fovx |-> 1, size |-> <<800, 800>>]] :
     f \in [1..n -> Names]}

FramesSet == UNION {FramesOf(n) : n \in 0..MaxCams}

HasUnsupported(extrs) ==
    \E i \in 1..Len(extrs) : extrs[i].camera_id \in UnsupportedIds

\* The name lists a split file may hold.
SplitLists == {<<>>, <<1>>, <<2>>, <<2, 1>>}

NoSplit == [exists |-> FALSE, train |-> <<>>, test |-> <<>>]

Splits ==
    {NoSplit} \cup
    {[exists |-> TRUE, train |-> tr, test |-> te] :
        tr \in SplitLists, te \in SplitLists}

\* Which file there is for an image stem: as named, as .png only, or none.
AllImages == [s \in Names |-> "jpg"]
SomeImages == [s \in Names |-> IF s = 1 THEN "png" ELSE "none"]
PngImages == [s \in Names |-> "png"]

NoManifests == [f \in {} |-> <<>>]

Scene(type, extr, manifests, split, images, optimize) ==
    [type |-> type, extr |-> extr, manifests |-> manifests, split |-> split,
     images |-> images, optimize |-> optimize]

\* Scene directories: every split with all images present; partial images
\* and an interpreter run with -O with no split file.
ColmapScenes ==
    {Scene("Colmap", e, NoManifests, sp, AllImages, FALSE) :
        e \in ExtrinsicsSet, sp \in Splits}
    \cup {Scene("Colmap", e, NoManifests, NoSplit, SomeImages, FALSE) :
            e \in ExtrinsicsSet}
    \cup {Scene("Colmap", e, NoManifests, NoSplit, AllImages, TRUE) :
            e \in {x \in ExtrinsicsSet : HasUnsupported(x)}}

ToyDeskScenes ==
    {Scene("ToyDesk", <<>>, [f \in {"transforms_full.json"} |-> fr], sp,
           AllImages, FALSE) : fr \in FramesSet, sp \in Splits}
    \cup {Scene("ToyDesk", <<>>, [f \in {"transforms_full.json"} |-> fr],
                NoSplit, SomeImages, FALSE) : fr \in FramesSet}
    \cup {Scene("ToyDesk", <<>>, NoManifests, NoSplit, AllImages, FALSE)}

BlenderScenes ==
    {Scene("Blender", <<>>,
           [f \in {"transforms_train.json", "transforms_test.json"} |->
               IF f = "transforms_train.json" THEN tr ELSE te],
           NoSplit, im, FALSE) :
        tr \in FramesSet, te \in FramesSet, im \in {PngImages, SomeImages}}
    \cup {Scene("Blender", <<>>, NoManifests, NoSplit, PngImages, FALSE)}

Scenes == ColmapScenes \cup ToyDeskScenes \cup BlenderScenes

\* The arguments of a load: eval and split_yml_name.
Args ==
    {[eval |-> FALSE, split_yml_name |-> PyNone],
     [eval |-> TRUE, split_yml_name |-> PyNone],
     [eval |-> TRUE, split_yml_name |-> PyStr("split.yml")]}

\* ------------------------------------------------------------ camera_utils

\* The image files cameras point at, by image_path: the size Image.open
\* reports, or no file.  Widths on both sides of 1600; the quotients loadCam
\* takes of these sizes are the same in float and in exact arithmetic.
ImagePaths == {1, 2, 3, 4, 5}

ImageFile(image_path) ==
    CASE image_path = 1 -> [exists |-> TRUE, size |-> <<800, 600>>]
      [] image_path = 2 -> [exists |-> TRUE, size |-> <<1600, 1200>>]
      [] image_path = 3 -> [exists |-> TRUE, size |-> <<1700, 1000>>]
      [] image_path = 4 -> [exists |-> TRUE, size |-> <<3200, 2400>>]
      [] OTHER -> [exists |-> FALSE, size |-> <<0, 0>>]

\* args.resolution: the default -1, the factors 1 and 2, a target width, 0.
Resolutions == {-1, 0, 1, 2, 800}

\* resolution_scale, as Scene passes it (1.0, 2.0).
ResolutionScales == {1, 2}

ModelParams == [resolution : Resolutions, data_device : {"cuda"}]

\* The cam_infos handed to cameraList_from_camInfos: the fields loadCam reads.
RECURSIVE CamInfosOf(_)
CamInfosOf(n) ==
    IF n = 0 THEN {<<>>}
    ELSE {Append(s, [uid |-> n - 1, image_path |-> ip, image_name |-> ip]) :
            s \in CamInfosOf(n - 1), ip \in ImagePaths}

CamInfoLists == UNION {CamInfosOf(n) : n \in 0..MaxCams}

\* round(n / d) of Python 3 for n >= 0, d > 0: to nearest, ties to even.
PyRound(n, d) ==
    LET q == n \div d
        r == n % d
    IN  IF 2 * r < d THEN q
        ELSE IF 2 * r > d THEN q + 1
        ELSE IF q % 2 = 0 THEN q ELSE q + 1

\* int(n / d) for n >= 0, d > 0: truncation.
PyInt(n, d) == n \div d

\* Variant of ShouldWarn: the flag is not consulted.
ShouldWarnAlways(warned) == TRUE

\* if not WARNED
ShouldWarn(warned) == ~warned

\* The message the rescale branch prints.
RescaleMsg == "Encountered quite large input images"

NoCamera == [uid |-> -1, colmap_id |-> -1, resolution |-> <<0, 0>>,
             image_path |-> 0, image_name |-> 0, data_device |-> ""]

\* Camera(...): the keyword arguments of the constructor call.
Camera(id, cam_info, resolution, args) ==
    [uid |-> id, colmap_id |-> cam_info.uid, resolution |-> resolution,
     image_path |-> cam_info.image_path, image_name |-> cam_info.image_name,
     data_device |-> args.data_device]

\* What one call of loadCam leaves behind: ok/err, the camera returned, the
\* value of the global WARNED after it, the lines it printed, and of its
\* locals orig_w and global_down (branch: the arm of the if that ran).
LoadCamOutcome(ok, err, cam, warned, out, orig_w, branch, global_down) ==
    [ok |-> ok, err |-> err, cam |-> cam, WARNED |-> warned, out |-> out,
     orig_w |-> orig_w, branch |-> branch, global_down |-> global_down]

loadCam(args, id, cam_info, resolution_scale, warned) ==
    LET img == ImageFile(cam_info.image_path)
        orig_w == img.size[1]
        orig_h == img.size[2]
    IN  IF ~img.exists
        THEN LoadCamOutcome(FALSE, "FileNotFoundError", NoCamera, warned,
                            <<>>, 0, "open", Rat(0, 1))
        ELSE IF args.resolution \in {1, 2, 4, 8}
        THEN LET d == resolution_scale * args.resolution
                 resolution == <<PyRound(orig_w, d), PyRound(orig_h, d)>>
             IN  LoadCamOutcome(TRUE, "", Camera(id, cam_info, resolution, args),
                                warned, <<>>, orig_w, "factor", Rat(0, 1))
        ELSE IF args.resolution = 0
        THEN LoadCamOutcome(FALSE, "ZeroDivisionError", NoCamera, warned,
                            <<>>, orig_w, "width", Rat(0, 1))
        ELSE LET big == args.resolution = -1 /\ orig_w > 1600
                 warns == big /\ ShouldWarn(warned)
                 global_down ==
                     IF args.resolution = -1
                     THEN IF orig_w > 1600 THEN Rat(orig_w, 1600)
                          ELSE Rat(1, 1)
                     ELSE Rat(orig_w, args.resolution)
                 \* scale = float(global_down) * float(resolution_scale)
                 sn == global_down.num * resolution_scale
                 sd == global_down.den
                 resolution == <<PyInt(orig_w * sd, sn), PyInt(orig_h * sd, sn)>>
             IN  LoadCamOutcome(TRUE, "", Camera(id, cam_info, resolution, args),
                                IF warns THEN TRUE ELSE warned,
                                IF warns THEN <<RescaleMsg>> ELSE <<>>,
                                orig_w,
                                IF big THEN "rescale"
                                ELSE IF args.resolution = -1 THEN "keep"
                                ELSE "width",
                                global_down)

\* ---------------------------------------------------------------- state

VARIABLES
    world,      \* the scene directory, but for its ply cache
    ply,        \* the cache file at ply_path
    writer,     \* the process whose storePly wrote ply last (0: none)
    writes,     \* storePly calls on ply_path so far
    proc,       \* each process's position in its load, and its locals
    WARNED,     \* the module global of camera_utils
    stdout,     \* the rescale messages printed so far
    cl          \* cameraList_from_camInfos: its position and its locals

vars == <<world, ply, writer, writes, proc, WARNED, stdout, cl>>

camVars == <<WARNED, stdout, cl>>

\* No loadCam call yet.
NoCall ==
    [resolution |-> 0, warnedBefore |-> FALSE,
     res |-> LoadCamOutcome(TRUE, "", NoCamera, FALSE, <<>>, 0, "none",
                            Rat(0, 1))]

IdleList ==
    [pc |-> "idle", args |-> [resolution |-> -1, data_device |-> "cuda"],
     resolution_scale |-> 1, cam_infos |-> <<>>, camera_list |-> <<>>,
     last |-> NoCall, err |-> ""]

NoFile == [exists |-> FALSE, data |-> <<>>]

ZeroNorm == [translate |-> Rat(0, 1), radius |-> Rat(0, 1)]

NoLog ==
    [extBin |-> "unread", intBin |-> "unread", extTxt |-> "unread",
     intTxt |-> "unread", ptsBin |-> "unread", ptsTxt |-> "unread",
     extrSrc |-> "none", intrSrc |-> "none"]

Idle ==
    [pc |-> "idle", eval |-> FALSE, split_yml_name |-> PyNone,
     cam_infos |-> <<>>, train |-> <<>>, test |-> <<>>, norm |-> ZeroNorm,
     io |-> NoLog, gen |-> <<>>, pcd |-> NoPcd, sawAbsent |-> FALSE,
     err |-> ""]

Procs == DOMAIN proc

Failed(l, err) == [l EXCEPT !.pc = "failed", !.err = err]

InitWith(scenes, procs) ==
    /\ world \in scenes
    /\ ply = NoFile
    /\ writer = 0
    /\ writes = 0
    /\ proc = [p \in procs |-> Idle]
    /\ WARNED = FALSE
    /\ stdout = <<>>
    /\ cl = IdleList

Init == InitWith(Scenes, {1})

\* -------------------------------------------------------------- actions

\* readColmapSceneInfo, the try/except that reads images.* and cameras.*
ColmapReadStores(p) ==
    /\ world.type = "Colmap"
    /\ proc[p].pc = "idle"
    /\ \E a \in Args, extBin, intBin, extTxt, intTxt \in BOOLEAN :
        LET r == ReadSparse(extBin, intBin, extTxt, intTxt)
            l == [proc[p] EXCEPT !.eval = a.eval,
                                 !.split_yml_name = a.split_yml_name,
                                 !.io = r.log @@ [extrSrc |-> r.extrSrc,
                                                  intrSrc |-> r.intrSrc]
                                              @@ NoLog]
        IN  proc' = [proc EXCEPT ![p] =
                        IF r.ok THEN [l EXCEPT !.pc = "readCameras"]
                        ELSE Failed(l, r.err)]
    /\ UNCHANGED <<world, ply, writer, writes, camVars>>

\* readColmapSceneInfo: readColmapCameras, then sorted by image_name
ColmapReadCameras(p) ==
    /\ proc[p].pc = "readCameras"
    /\ LET r == readColmapCameras(world.extr, world.images, world.optimize)
           l == [proc[p] EXCEPT !.io = NoLog]
       IN  proc' = [proc EXCEPT ![p] =
                      IF r.ok
                      THEN [l EXCEPT !.pc = "split",
                                     !.cam_infos = SortedByName(r.cam_infos)]
                      ELSE Failed(l, r.err)]
    /\ UNCHANGED <<world, ply, writer, writes, camVars>>

\* readColmapSceneInfo: the split, then getNerfppNorm(train_cam_infos)
ColmapSplit(p) ==
    /\ proc[p].pc = "split"
    /\ LET l == proc[p]
           s == SplitCameras(l.eval, l.split_yml_name, world.split, l.cam_infos)
           n == getNerfppNorm(s.train)
       IN  proc' = [proc EXCEPT ![p] =
                      IF ~s.ok THEN Failed(l, s.err)
                      ELSE IF ~n.ok
                      THEN Failed([l EXCEPT !.train = s.train,
                                            !.test = s.test], n.err)
                      ELSE [l EXCEPT !.pc = "checkPly", !.train = s.train,
                                     !.test = s.test, !.norm = n.val]]
    /\ UNCHANGED <<world, ply, writer, writes, camVars>>

\* if not os.path.exists(ply_path), in each of the three loaders
CheckPly(p) ==
    /\ proc[p].pc = "checkPly"
    /\ proc' = [proc EXCEPT ![p] =
                  [@ EXCEPT !.pc = IF CacheMissing(ply) THEN "storePly"
                                   ELSE "fetchPly",
                            !.sawAbsent = ~ply.exists]]
    /\ UNCHANGED <<world, ply, writer, writes, camVars>>

\* readColmapSceneInfo: read points3D (binary, else text), then storePly
ColmapStorePly(p) ==
    /\ world.type = "Colmap"
    /\ proc[p].pc = "storePly"
    /\ \E binOk, txtOk \in BOOLEAN :
        LET r == ReadPoints3D(binOk, txtOk)
            l == [proc[p] EXCEPT !.io = r.log @@ NoLog]
        IN  IF r.ok
            THEN /\ ply' = [exists |-> TRUE, data |-> storePly(r.points)]
                 /\ writer' = p
                 /\ writes' = writes + 1
                 /\ proc' = [proc EXCEPT ![p] =
                                [l EXCEPT !.pc = "fetchPly",
                                          !.gen = r.points]]
            ELSE /\ proc' = [proc EXCEPT ![p] = Failed(l, r.err)]
                 /\ UNCHANGED <<ply, writer, writes>>
    /\ UNCHANGED <<world, camVars>>

\* readNerfSyntheticInfo, readToyDeskSceneInfo: a random cloud, then storePly
RandomStorePly(p) ==
    /\ world.type \in {"Blender", "ToyDesk"}
    /\ proc[p].pc = "storePly"
    /\ \E cloud \in RandomClouds :
        /\ ply' = [exists |-> TRUE, data |-> storePly(cloud)]
        /\ writer' = p
        /\ writes' = writes + 1
        /\ proc' = [proc EXCEPT ![p] =
                      [@ EXCEPT !.pc = "fetchPly", !.gen = cloud]]
    /\ UNCHANGED <<world, camVars>>

\* pcd = fetchPly(ply_path); readColmapSceneInfo and readNerfSyntheticInfo
\* then return the SceneInfo, readToyDeskSceneInfo goes on to its split
FetchPly(p) ==
    /\ proc[p].pc = "fetchPly"
    /\ ply.exists
    /\ proc' = [proc EXCEPT ![p] =
                  [@ EXCEPT !.pc = IF world.type = "ToyDesk" THEN "toySplit"
                                   ELSE "done",
                            !.pcd = fetchPly(ply.data),
                            !.io = NoLog]]
    /\ UNCHANGED <<world, ply, writer, writes, camVars>>

\* readToyDeskSceneInfo: readCamerasFromTransforms, getNerfppNorm(cam_infos)
ToyDeskReadTransforms(p) ==
    /\ world.type = "ToyDesk"
    /\ proc[p].pc = "idle"
    /\ \E a \in Args, white_background \in BOOLEAN :
        LET r == readCamerasFromTransforms(
                    <<PyStr("path"), PyStr(ImagesDir),
                      PyStr("transforms_full.json"), PyBool(white_background)>>,
                    [depth_cam_folder |-> PyNone, depth_est_folder |-> PyNone,
                     extension |-> PyStr("jpg")],
                    world.manifests, world.images)
            n == getNerfppNorm(r.cam_infos)
            l == [proc[p] EXCEPT !.eval = a.eval,
                                 !.split_yml_name = a.split_yml_name]
        IN  proc' = [proc EXCEPT ![p] =
                        IF ~r.ok THEN Failed(l, r.err)
                        ELSE IF ~n.ok THEN Failed(l, n.err)
                        ELSE [l EXCEPT !.pc = "checkPly",
                                       !.cam_infos = r.cam_infos,
                                       !.norm = n.val]]
    /\ UNCHANGED <<world, ply, writer, writes, camVars>>

\* readToyDeskSceneInfo: the split, then the SceneInfo is returned
ToyDeskSplit(p) ==
    /\ proc[p].pc = "toySplit"
    /\ LET l == proc[p]
           s == SplitCameras(l.eval, l.split_yml_name, world.split, l.cam_infos)
       IN  proc' = [proc EXCEPT ![p] =
                      IF ~s.ok THEN Failed(l, s.err)
                      ELSE [l EXCEPT !.pc = "done", !.train = s.train,
                                     !.test = s.test]]
    /\ UNCHANGED <<world, ply, writer, writes, camVars>>

\* readNerfSyntheticInfo up to getNerfppNorm(train_cam_infos)
NerfSyntheticRead(p) ==
    /\ world.type = "Blender"
    /\ proc[p].pc = "idle"
    /\ \E eval, white_background \in BOOLEAN :
        LET tr == readCamerasFromTransforms(
                    <<PyStr("path"), PyStr("transforms_train.json"),
                      PyBool(white_background)>>,
                    [isOpenGL |-> PyBool(TRUE), extension |-> PyStr("png")],
                    world.manifests, world.images)
            te == readCamerasFromTransforms(
                    <<PyStr("path"), PyStr("transforms_test.json"),
                      PyBool(white_background)>>,
                    [isOpenGL |-> PyBool(TRUE), extension |-> PyStr("png")],
                    world.manifests, world.images)
            train == IF eval THEN tr.cam_infos
                     ELSE tr.cam_infos \o te.cam_infos
            test == IF eval THEN te.cam_infos ELSE <<>>
            n == getNerfppNorm(train)
            l == [proc[p] EXCEPT !.eval = eval]
        IN  proc' = [proc EXCEPT ![p] =
                        IF ~tr.ok THEN Failed(l, tr.err)
                        ELSE IF ~te.ok THEN Failed(l, te.err)
                        ELSE IF ~n.ok THEN Failed(l, n.err)
                        ELSE [l EXCEPT !.pc = "checkPly", !.train = train,
                                       !.test = test, !.norm = n.val]]
    /\ UNCHANGED <<world, ply, writer, writes, camVars>>

\* The load is over (a SceneInfo returned, or an exception raised to the
\* caller); the process may load the scene again.
Finish(p) ==
    /\ proc[p].pc \in {"done", "failed"}
    /\ proc' = [proc EXCEPT ![p] = Idle]
    /\ UNCHANGED <<world, ply, writer, writes, camVars>>

Next ==
    \/ \E p \in Procs : ColmapReadStores(p)
    \/ \E p \in Procs : ColmapReadCameras(p)
    \/ \E p \in Procs : ColmapSplit(p)
    \/ \E p \in Procs : CheckPly(p)
    \/ \E p \in Procs : ColmapStorePly(p)
    \/ \E p \in Procs : RandomStorePly(p)
    \/ \E p \in Procs : FetchPly(p)
    \/ \E p \in Procs : ToyDeskReadTransforms(p)
    \/ \E p \in Procs : ToyDeskSplit(p)
    \/ \E p \in Procs : NerfSyntheticRead(p)
    \/ \E p \in Procs : Finish(p)

\* One process: loads of the scene one after another.
Spec == Init /\ [][Next]_vars

\* Two processes loading the same scene at once, on the scenes of at most
\* one camera (image stem 1), all images present and no split file.
RaceScenes ==
    {w \in Scenes :
        /\ Len(w.extr) <= 1
        /\ \A i \in 1..Len(w.extr) : w.extr[i].name.stem = 1
        /\ \A f \in DOMAIN w.manifests :
              /\ Len(w.manifests[f]) <= 1
              /\ \A i \in 1..Len(w.manifests[f]) :
                    w.manifests[f][i].file_path.stem = 1
        /\ w.split = NoSplit
        /\ w.images \in {AllImages, PngImages}
        /\ ~w.optimize}

InitRace == InitWith(RaceScenes, {1, 2})

SpecRace == InitRace /\ [][Next]_vars

\* cameraList_from_camInfos, up to its list comprehension.
CameraListStart ==
    /\ cl.pc # "loop"
    /\ \E cam_infos \in CamInfoLists, resolution_scale \in ResolutionScales,
          args \in ModelParams :
          cl' = [IdleList EXCEPT !.pc = "loop", !.args = args,
                                 !.resolution_scale = resolution_scale,
                                 !.cam_infos = cam_infos, !.last = cl.last]
    /\ UNCHANGED <<world, ply, writer, writes, proc, WARNED, stdout>>

\* One turn of the list comprehension: loadCam(args, id, c, resolution_scale)
\* for the next (id, c) of enumerate(cam_infos).
CameraListLoadCam ==
    /\ cl.pc = "loop"
    /\ Len(cl.camera_list) < Len(cl.cam_infos)
    /\ LET id == Len(cl.camera_list)
           res == loadCam(cl.args, id, cl.cam_infos[id + 1],
                          cl.resolution_scale, WARNED)
           call == [resolution |-> cl.args.resolution,
                    warnedBefore |-> WARNED, res |-> res]
       IN  /\ WARNED' = res.WARNED
           /\ stdout' = stdout \o res.out
           /\ cl' = IF res.ok
                    THEN [cl EXCEPT !.camera_list = Append(@, res.cam),
                                    !.last = call]
                    ELSE [cl EXCEPT !.pc = "failed", !.err = res.err,
                                    !.last = call]
    /\ UNCHANGED <<world, ply, writer, writes, proc>>

\* return camera_list
CameraListReturn ==
    /\ cl.pc = "loop"
    /\ Len(cl.camera_list) = Len(cl.cam_infos)
    /\ cl' = [cl EXCEPT !.pc = "done"]
    /\ UNCHANGED <<world, ply, writer, writes, proc, WARNED, stdout>>

NextCam ==
    \/ CameraListStart
    \/ CameraListLoadCam
    \/ CameraListReturn

\* One process building camera lists one after another, its readers idle on
\* a scene directory without cameras.
InitCam ==
    InitWith({Scene("ToyDesk", <<>>, NoManifests, NoSplit, AllImages, FALSE)},
             {1})

SpecCam == InitCam /\ [][NextCam]_vars

\* ---------------------------------------------------------------- claims

Returned(p) == proc[p].pc = "done"

NamesOf(cams) == {cams[i].image_name : i \in 1..Len(cams)}

ListedNames(list) == {list[i] : i \in 1..Len(list)}

\* C1: every SceneInfo returned with train cameras carries the
\* normalization of exactly those: nerf_normalization =
\* getNerfppNorm(train_cameras), whatever the test set is.
C1_NormFromTrainOnly ==
    \A p \in Procs :
        Returned(p) /\ proc[p].train # <<>> =>
            proc[p].norm = getNerfppNorm(proc[p].train).val

\* A split was applied by readColmapSceneInfo or readToyDeskSceneInfo.
SplitApplied(p) ==
    /\ Returned(p)
    /\ proc[p].eval
    /\ world.type \in {"Colmap", "ToyDesk"}

\* Every name listed under train or test is the image_name of a camera.
ListedNamesMatch(p) ==
    ListedNames(world.split.train) \cup ListedNames(world.split.test)
        \subseteq NamesOf(proc[p].cam_infos)

\* Every camera's image_name is listed under exactly one of train and test.
EveryCameraListedOnce(p) ==
    \A n \in NamesOf(proc[p].cam_infos) :
        (n \in ListedNames(world.split.train))
            # (n \in ListedNames(world.split.test))

\* C2 as stated: with a split applied whose listed names all match cameras,
\* len(train_cameras) + len(test_cameras) = len(all loaded cameras).
C2_SplitCoversAll ==
    \A p \in Procs :
        SplitApplied(p) /\ ListedNamesMatch(p) =>
            Len(proc[p].train) + Len(proc[p].test) = Len(proc[p].cam_infos)

\* C2 amended: the same, when moreover every loaded camera's image_name is
\* listed under exactly one of train and test.
C2_SplitCoversAllWhenListedOnce ==
    \A p \in Procs :
        SplitApplied(p) /\ ListedNamesMatch(p) /\ EveryCameraListedOnce(p) =>
            Len(proc[p].train) + Len(proc[p].test) = Len(proc[p].cam_infos)

\* C2 witness: a split that lists each of two cameras once has been applied,
\* one camera to each side.
C2_Witness ==
    \E p \in Procs :
        /\ SplitApplied(p) /\ ListedNamesMatch(p) /\ EveryCameraListedOnce(p)
        /\ Len(proc[p].cam_infos) = 2
        /\ Len(proc[p].train) = 1
        /\ Len(proc[p].test) = 1

\* C3 as stated: in every SceneInfo returned, no image_name is in both
\* train_cameras and test_cameras.
C3_TrainTestDisjoint ==
    \A p \in Procs :
        Returned(p) =>
            NamesOf(proc[p].train) \cap NamesOf(proc[p].test) = {}

\* C3 amended: train_cameras and test_cameras share no image_name whenever
\* the split's train and test lists share no name (and whenever no split is
\* applied).
C3_DisjointWhenListsDisjoint ==
    \A p \in Procs :
        /\ Returned(p)
        /\ (SplitApplied(p) =>
              ListedNames(world.split.train)
                  \cap ListedNames(world.split.test) = {})
        => NamesOf(proc[p].train) \cap NamesOf(proc[p].test) = {}

\* C3 witness: a split with disjoint lists has been applied, and each side
\* holds a camera.
C3_Witness ==
    \E p \in Procs :
        /\ SplitApplied(p)
        /\ ListedNames(world.split.train)
              \cap ListedNames(world.split.test) = {}
        /\ proc[p].train # <<>>
        /\ proc[p].test # <<>>

\* The cameras the scene directory describes.
SceneCameraCount ==
    CASE world.type = "Colmap" -> Len(world.extr)
      [] world.type = "ToyDesk" ->
            IF "transforms_full.json" \in DOMAIN world.manifests
            THEN Len(world.manifests["transforms_full.json"]) ELSE 0
      [] OTHER ->
            IF "transforms_train.json" \in DOMAIN world.manifests
            THEN Len(world.manifests["transforms_train.json"])
                 + Len(world.manifests["transforms_test.json"])
            ELSE 0

NoSplitPresent(p) ==
    proc[p].split_yml_name = PyNone \/ ~world.split.exists

\* C4: a load with eval requested and no split specification (no file name
\* given, or no such file) returns no SceneInfo; a load without eval that
\* returns has every camera of the scene in train_cameras and none in
\* test_cameras.
C4_EvalNeedsSplit ==
    \A p \in Procs :
        /\ proc[p].eval /\ NoSplitPresent(p) => ~Returned(p)
        /\ Returned(p) /\ ~proc[p].eval =>
            /\ proc[p].test = <<>>
            /\ Len(proc[p].train) = SceneCameraCount
            /\ world.type \in {"Colmap", "ToyDesk"} =>
                  proc[p].train = proc[p].cam_infos

\* C4 witness: an eval load has failed for want of a split file.
C4_Witness ==
    \E p \in Procs :
        /\ proc[p].pc = "failed"
        /\ proc[p].eval
        /\ proc[p].split_yml_name = PyStr("split.yml")
        /\ ~world.split.exists
        /\ proc[p].err = "FileNotFoundError"
        /\ proc[p].cam_infos # <<>>

\* C5: the cache is written only while it is absent, never written or
\* changed once it exists, and every load that returns hands back exactly
\* the positions and colours the file holds (sequential loads).
C5_CacheWriteOnce ==
    /\ [](\A p \in Procs :
            Returned(p) =>
                ply.exists /\ proc[p].pcd = fetchPly(ply.data))
    /\ [][(ply' # ply \/ writes' # writes) => ~ply.exists]_vars

\* C5 witness: a load that found the cache present has returned its cloud.
C5_Witness ==
    \E p \in Procs :
        /\ Returned(p)
        /\ ~proc[p].sawAbsent
        /\ writes = 1
        /\ proc[p].pcd = fetchPly(ply.data)

\* C6: nothing but the writer's own earlier existence check guards the
\* write: a process is about to write only if its check saw the file absent
\* (the file may exist by then), so there are at most as many writes as
\* processes.
C6_WriteGuardedByOwnCheck ==
    /\ \A p \in Procs : proc[p].pc = "storePly" => proc[p].sawAbsent
    /\ writes <= Cardinality(Procs)

\* C6 witness, the race: both processes saw the cache absent and both wrote it, and one
\* of them read back the cloud the other wrote.
C6_Witness ==
    /\ writes = 2
    /\ \A p \in Procs : proc[p].sawAbsent
    /\ \E p \in Procs :
        /\ writer # p
        /\ proc[p].pc \in {"toySplit", "done"}
        /\ proc[p].pcd = fetchPly(ply.data)
        /\ proc[p].pcd # fetchPly(storePly(proc[p].gen))

\* C7: when an extrinsic entry refers to an intrinsics model other than
\* SIMPLE_PINHOLE and PINHOLE, readColmapSceneInfo returns no SceneInfo and
\* no CameraInfo is ever built for that entry.
C7_UnsupportedModelAborts ==
    \A p \in Procs :
        world.type = "Colmap" =>
            /\ \A i \in 1..Len(proc[p].cam_infos) :
                  proc[p].cam_infos[i].uid \notin UnsupportedIds
            /\ HasUnsupported(world.extr) => ~Returned(p)

\* C8: images/cameras come from the binary pair when both binary reads
\* succeed and otherwise both from text; points3D comes from the binary file,
\* else from text; a load fails on decoding only when the binary and the
\* text variant both failed.
C8_BinaryFallsBackToText ==
    \A p \in Procs :
        LET io == proc[p].io
            binFailed == io.extBin = "fail" \/ io.intBin = "fail"
            txtFailed == io.extTxt = "fail" \/ io.intTxt = "fail"
        IN  /\ proc[p].pc = "readCameras" =>
                /\ io.extrSrc = io.intrSrc
                /\ io.extrSrc \in {"bin", "txt"}
                /\ io.extrSrc = "bin" <=> ~binFailed
                /\ io.extrSrc = "txt" =>
                      io.extTxt = "ok" /\ io.intTxt = "ok"
            /\ proc[p].pc = "failed" /\ proc[p].err = "DecodeError" =>
                \/ binFailed /\ txtFailed
                \/ io.ptsBin = "fail" /\ io.ptsTxt = "fail"
            /\ io.extTxt = "ok" /\ io.intTxt = "ok" =>
                proc[p].pc = "readCameras"
            /\ io.ptsBin = "ok" =>
                proc[p].pc = "fetchPly" /\ ply.data = storePly(PointsBin)
            /\ io.ptsTxt = "ok" =>
                /\ io.ptsBin = "fail"
                /\ proc[p].pc = "fetchPly"
                /\ ply.data = storePly(PointsTxt)

\* C8 witness: images.bin was read, cameras.bin failed, and both mappings
\* came from text.
C8_Witness ==
    \E p \in Procs :
        /\ proc[p].pc = "readCameras"
        /\ proc[p].io.extBin = "ok"
        /\ proc[p].io.intBin = "fail"
        /\ proc[p].io.extrSrc = "txt"
        /\ proc[p].io.intrSrc = "txt"

StemsOf(frames) == [i \in 1..Len(frames) |-> frames[i].file_path.stem]

ImageNames(cams) == [i \in 1..Len(cams) |-> cams[i].image_name]

\* C9: a synthetic scene whose two manifests and images all exist loads:
\* with eval, train_cameras are the frames of transforms_train.json and
\* test_cameras those of transforms_test.json, in manifest order; without,
\* train_cameras are the train frames then the test frames, and
\* test_cameras is empty.
C9_SyntheticLoadReturns ==
    \A p \in Procs :
        /\ world.type = "Blender"
        /\ DOMAIN world.manifests # {}
        /\ \A f \in DOMAIN world.manifests :
              \A i \in 1..Len(world.manifests[f]) :
                  world.images[world.manifests[f][i].file_path.stem] = "png"
        => LET tr == StemsOf(world.manifests["transforms_train.json"])
               te == StemsOf(world.manifests["transforms_test.json"])
           IN  /\ proc[p].pc # "failed"
               /\ Returned(p) /\ proc[p].eval =>
                    /\ ImageNames(proc[p].train) = tr
                    /\ ImageNames(proc[p].test) = te
               /\ Returned(p) /\ ~proc[p].eval =>
                    /\ ImageNames(proc[p].train) = tr \o te
                    /\ proc[p].test = <<>>

AscendingByName(cams) ==
    \A i, j \in 1..Len(cams) :
        i < j => cams[i].image_name <= cams[j].image_name

\* cams is a subsequence of all, which are numbered (uid) in their order.
InOrderOf(cams, all) ==
    /\ \A i \in 1..Len(cams) :
          /\ cams[i].uid + 1 \in 1..Len(all)
          /\ cams[i] = all[cams[i].uid + 1]
    /\ \A i, j \in 1..Len(cams) : i < j => cams[i].uid < cams[j].uid

\* C10: what readColmapSceneInfo returns as train_cameras and test_cameras
\* is each in ascending image_name order; what readToyDeskSceneInfo returns
\* is each a subsequence of the manifest's frames, in their order.
C10_CameraOrder ==
    \A p \in Procs :
        /\ Returned(p) /\ world.type = "Colmap" =>
              AscendingByName(proc[p].train) /\ AscendingByName(proc[p].test)
        /\ Returned(p) /\ world.type = "ToyDesk" =>
              /\ ImageNames(proc[p].cam_infos)
                    = StemsOf(world.manifests["transforms_full.json"])
              /\ InOrderOf(proc[p].train, proc[p].cam_infos)
              /\ InOrderOf(proc[p].test, proc[p].cam_infos)

\* C10 witness: extrinsics iterated in descending name order, the split's
\* train list likewise, and both cameras returned as train cameras.
C10_Witness ==
    \E p \in Procs :
        /\ Returned(p)
        /\ world.type = "Colmap"
        /\ Len(world.extr) = 2
        /\ world.extr[1].name.stem > world.extr[2].name.stem
        /\ proc[p].eval
        /\ world.split.train = <<2, 1>>
        /\ Len(proc[p].train) = 2


\* The last loadCam call ran with args.resolution == -1 on an image wider
\* than 1600 pixels.
LastCallOversized ==
    /\ cl.last.res.branch # "none"
    /\ cl.last.res.ok
    /\ cl.last.resolution = -1
    /\ cl.last.res.orig_w > 1600

\* A step that prints the rescale message: a loadCam call with
\* args.resolution == -1 on an image wider than 1600, the first such, and the
\* step that takes WARNED from False to True.
Emission ==
    /\ cl.pc = "loop"
    /\ stdout' = Append(stdout, RescaleMsg)
    /\ ~WARNED
    /\ WARNED'
    /\ cl'.last.resolution = -1
    /\ cl'.last.res.orig_w > 1600
    /\ ~cl'.last.warnedBefore

\* C11: across the loadCam calls of one process the rescale message is
\* printed at most once, and only by a call with args.resolution == -1 on an
\* image wider than 1600; WARNED turns True at that step, at no other, and
\* never turns False again; every such call, printing or not, has
\* global_down = orig_w / 1600.
C11_WarnOnce ==
    /\ [](/\ Len(stdout) <= 1
          /\ WARNED <=> Len(stdout) = 1
          /\ LastCallOversized =>
                cl.last.res.global_down = Rat(cl.last.res.orig_w, 1600))
    /\ [][stdout' # stdout => Emission]_vars
    /\ [][WARNED' # WARNED => Emission]_vars
    /\ [][WARNED => WARNED']_vars

\* A second oversized call at the default resolution: the message was
\* printed by an earlier call, this one prints nothing and still rescales by
\* orig_w / 1600.
C11_Witness ==
    /\ LastCallOversized
    /\ cl.last.warnedBefore
    /\ cl.last.res.out = <<>>
    /\ WARNED
    /\ stdout = <<RescaleMsg>>
    /\ cl.last.res.global_down = Rat(cl.last.res.orig_w, 1600)
    /\ cl.last.res.global_down # Rat(1, 1)


====
